---- MODULE Spec2Model ----
(***************************************************************************)
(* Model of the epicservice inventory bot.                                 *)
(*                                                                         *)
(* Two code bases live in the repository and both are modelled:            *)
(*   - the SQLAlchemy bot (src/services, src/handlers, src/database):      *)
(*     products / shopping_lists / cart_items, CartService, ExcelExporter  *)
(*     (settlement) and SmartImporter (reconciliation);                    *)
(*   - the aiosqlite application (src/app): the items table with           *)
(*     SqliteItemsRepository.upsert_from_import and the /item card.        *)
(*                                                                         *)
(* Spec        every handler of the bot runs alone (one request at a time).*)
(* SpecImport  the bot's reconciliation alone, over every small file.      *)
(* SpecConc    handlers of two concurrent requests interleave at their     *)
(*             awaits; every request owns an ORM session                   *)
(*             (DbSessionMiddleware).                                      *)
(* SpecApp     the src/app items repository and the /item card.            *)
(***************************************************************************)
EXTENDS Integers, Sequences, FiniteSets, TLC

(***************************************************************************)
(* Bounds of the model.                                                    *)
(***************************************************************************)
MaxLists == 2       \* shopping_lists rows ever created
MaxItems == 2       \* cart_items rows ever inserted
MaxClaim == 2       \* largest quantity a cart line is allowed to reach
MaxDelta == 2       \* largest quantity one add request carries
MaxRows  == 2       \* rows of one import file
MaxStock == 1       \* largest quantity a file row carries
MaxReqs  == 2       \* SpecConc: requests handled at the same time
MaxSeqStock == 3    \* SpecSeq: largest balance of the claimed item
MaxSheetRows == 1   \* SpecSheet: rows of one sheet

NoVal == "None"     \* Python's None (and the falsy cell values '' / 0)

Users == {1, 2}
SKUs  == {"A", "B"}

(***************************************************************************)
(* State.                                                                  *)
(***************************************************************************)
VARIABLES
  products,     \* products table: sku -> row (src/database/models.py Product)
  lists,        \* shopping_lists table: id -> row, ids 1..Len(lists)
  cart_items,   \* cart_items table: set of rows, each with its id
  next_item_id, \* the id the next INSERT into cart_items gets
  card,         \* src/app: what the last /item command computed
  reqs,         \* SpecConc: the requests in flight, each with its ORM session
  items         \* src/app items table: sku -> row

vars == <<products, lists, cart_items, next_item_id, card, reqs, items>>
botVars == <<products, lists, cart_items, next_item_id>>

(***************************************************************************)
(* Small helpers.                                                          *)
(***************************************************************************)
Max2(a, b) == IF a >= b THEN a ELSE b

MinOfSet(S) == CHOOSE x \in S : \A y \in S : x <= y

\* The elements of a finite set of integers in ascending order.
RECURSIVE SortedSeq(_)
SortedSeq(S) ==
  IF S = {} THEN <<>>
  ELSE LET m == MinOfSet(S) IN <<m>> \o SortedSeq(S \ {m})

\* Sum of f[x] over the finite set S.
RECURSIVE SumOver(_, _)
SumOver(f, S) ==
  IF S = {} THEN 0
  ELSE LET x == CHOOSE y \in S : TRUE IN f[x] + SumOver(f, S \ {x})

\* `product.department or "000"`
DeptOrDefault(dept) == IF dept = NoVal THEN "000" ELSE dept

(***************************************************************************)
(* Tables: rows as the ORM models declare them.                            *)
(***************************************************************************)
NewShoppingList(u) == [user_id |-> u, status |-> "active", department_lock |-> NoVal]

NewCartItem(id, lid, sku, qty) ==
  [id |-> id, list_id |-> lid, product_sku |-> sku,
   quantity |-> qty, surplus_quantity |-> 0]

\* Every list of the user, whatever its status.
ListIdsOfUser(ls, u) == {i \in DOMAIN ls : ls[i].user_id = u}

\* CartService.get_active_list: the ids the query matches.
\* scalar_one_or_none() returns the row when it is alone, None when there is
\* none, and raises MultipleResultsFound otherwise.
ActiveListIds(ls, u) ==
  {i \in DOMAIN ls : ls[i].user_id = u /\ ls[i].status = "active"}

ItemsOfList(ci, lid) == {c \in ci : c.list_id = lid}

ItemById(ci, id) == CHOOSE c \in ci : c.id = id

NoStats == [created |-> 0, updated |-> 0, deactivated |-> 0, errors |-> 0]

\* What /item answers: whether the item was found, the item, and the
\* `available` it computed for the action keyboard.
Card(res, sku, available) == [res |-> res, sku |-> sku, available |-> available]

(***************************************************************************)
(* ExcelExporter.export_user_list (settlement).                            *)
(*                                                                         *)
(* ExportLoad    what the one SELECT with its selectinloads puts into the  *)
(*               ORM session: the list, its cart items, their products.    *)
(* ExportSplit   the loop over shop_list.items, on the loaded objects.     *)
(* ExportCommit  the UPDATEs the flush emits for the attributes the loop   *)
(*               changed (absolute values), and status = 'saved'.          *)
(***************************************************************************)
ExportLoad(ps, ls, ci, list_id) ==
  IF list_id \notin DOMAIN ls
  THEN [found |-> FALSE, status |-> NoVal, rows |-> {}, qty |-> <<>>]
  ELSE LET rows == ItemsOfList(ci, list_id)
           skus == {c.product_sku : c \in rows}
       IN [found  |-> TRUE,
           status |-> ls[list_id].status,
           rows   |-> rows,
           qty    |-> [k \in skus |-> ps[k].qty_total]]

\* One pass of the loop body (lines 79-117) for the cart item `it`;
\* acc.qty is product.qty_total of the loaded Product objects,
\* acc.rows the cart items already handled.
ExportSplitOne(acc, it) ==
  LET qty_collected == it.quantity
      qty_db        == acc.qty[it.product_sku]
      main_qty      == IF qty_collected <= qty_db THEN qty_collected ELSE qty_db
      surplus_qty   == IF qty_collected <= qty_db THEN 0 ELSE qty_collected - qty_db
      newQty        == IF main_qty > 0 THEN qty_db - main_qty ELSE qty_db
      newRow        == IF surplus_qty > 0
                       THEN [it EXCEPT !.surplus_quantity = surplus_qty,
                                       !.quantity = main_qty]
                       ELSE it
  IN [qty  |-> [acc.qty EXCEPT ![it.product_sku] = newQty],
      rows |-> acc.rows \cup {newRow},
      main |-> acc.main \cup (IF main_qty > 0 THEN {it.id} ELSE {}),
      surplus |-> acc.surplus \cup (IF surplus_qty > 0 THEN {it.id} ELSE {})]

RECURSIVE ExportFold(_, _, _)
ExportFold(acc, rows, order) ==
  IF order = <<>> THEN acc
  ELSE ExportFold(ExportSplitOne(acc, ItemById(rows, Head(order))), rows, Tail(order))

ExportSplit(snap) ==
  ExportFold([qty |-> snap.qty, rows |-> {}, main |-> {}, surplus |-> {}],
             snap.rows, SortedSeq({c.id : c \in snap.rows}))

\* `if not shop_list or not shop_list.items: return []`
ExportRejects(snap) == ~snap.found \/ snap.rows = {}

ExportCommitProducts(ps, snap, out) ==
  [k \in DOMAIN ps |->
     IF k \in DOMAIN out.qty /\ out.qty[k] # snap.qty[k]
     THEN [ps[k] EXCEPT !.qty_total = out.qty[k]]
     ELSE ps[k]]

ExportCommitItems(ci, snap, out) ==
  {IF \E n \in out.rows : n.id = c.id
   THEN LET n == ItemById(out.rows, c.id)
            o == ItemById(snap.rows, c.id)
        IN [c EXCEPT !.quantity = IF n.quantity # o.quantity THEN n.quantity ELSE @,
                     !.surplus_quantity =
                         IF n.surplus_quantity # o.surplus_quantity
                         THEN n.surplus_quantity ELSE @]
   ELSE c : c \in ci}

ExportCommitLists(ls, list_id, snap) ==
  IF snap.status # "saved"
  THEN [ls EXCEPT ![list_id].status = "saved"]
  ELSE ls

\* handlers/list_flow.py save_current_list -> export_user_list, run alone.
SaveCurrentList(list_id) ==
  LET snap == ExportLoad(products, lists, cart_items, list_id)
      out  == ExportSplit(snap)
  IN IF ExportRejects(snap)
     THEN UNCHANGED vars
     ELSE /\ products' = ExportCommitProducts(products, snap, out)
          /\ cart_items' = ExportCommitItems(cart_items, snap, out)
          /\ lists' = ExportCommitLists(lists, list_id, snap)
          /\ UNCHANGED <<next_item_id, card, reqs, items>>

(***************************************************************************)
(* handlers/user_flow.py show_product_card: the reserve is a fresh         *)
(* aggregate over the cart items of active lists; the stock is the         *)
(* qty_total of the Product object the ORM session holds.  (The handler    *)
(* then calls get_product_card_kb with a max_qty keyword the function does *)
(* not take, so no card is sent; only the computation is modelled.)        *)
(***************************************************************************)
ReservedCount(ls, ci, sku) ==
  LET rows == {c \in ci : c.product_sku = sku /\ ls[c.list_id].status = "active"}
  IN SumOver([c \in rows |-> c.quantity], rows)

AvailableQty(qty_total, ls, ci, sku) == qty_total - ReservedCount(ls, ci, sku)

\* display_available: a negative value is shown as 0 (and as a surplus)
DisplayAvailable(available_qty) == IF available_qty < 0 THEN 0 ELSE available_qty

(***************************************************************************)
(* CartService (src/services/cart.py), every call run alone.               *)
(***************************************************************************)
\* create_new_list without the UPDATE of the old list.
CreateNewListKeepsOld(ls, old, u) == Append(ls, NewShoppingList(u))

\* create_new_list: the UPDATE of the old list and the INSERT of the new one
CreateNewListWrite(ls, old, u) ==
  Append([i \in DOMAIN ls |->
            IF i \in old THEN [ls[i] EXCEPT !.status = "abandoned"] ELSE ls[i]],
         NewShoppingList(u))

CreateNewList(u) ==
  LET act == ActiveListIds(lists, u) IN
  /\ Len(lists) < MaxLists
  /\ IF Cardinality(act) > 1
     THEN \* scalar_one_or_none raises MultipleResultsFound
          UNCHANGED vars
     ELSE /\ lists' = CreateNewListWrite(lists, act, u)
          /\ UNCHANGED <<products, cart_items, next_item_id, card, reqs, items>>

\* The lock following every product that is added.
LockFollowsProduct(lock, product) == DeptOrDefault(product.department)

\* add_item step 3: the lock the list carries once the first item fixed it
LockAfter(lock, product) ==
  IF lock = NoVal THEN DeptOrDefault(product.department) ELSE lock

\* The department check left out: every product passes.
DeptMismatchNever(lock, product) == FALSE

\* add_item step 3 (second half): the department check
DeptMismatch(lock, product) == lock # DeptOrDefault(product.department)

\* Every add inserted as a row of its own.
InsertCartItem(ci, nid, lid, sku, qty) == ci \cup {NewCartItem(nid, lid, sku, qty)}

\* add_item step 4: `cart_item.quantity += qty` or a new CartItem
UpsertCartItem(ci, nid, lid, sku, qty) ==
  LET found == {c \in ci : c.list_id = lid /\ c.product_sku = sku} IN
  IF found # {}
  THEN {IF c \in found THEN [c EXCEPT !.quantity = @ + qty] ELSE c : c \in ci}
  ELSE ci \cup {NewCartItem(nid, lid, sku, qty)}

\* add_item with the list looked up, and created, before the product.
AddItemListFirst(ps, ls, ci, nid, u, sku, qty) ==
  LET act == ActiveListIds(ls, u)
  IN [res |-> IF sku \in DOMAIN ps THEN "error" ELSE "not_found",
      lists |-> IF act = {} THEN Append(ls, NewShoppingList(u)) ELSE ls,
      cart_items |-> ci, next_item_id |-> nid]

\* The whole of add_item(user_id, sku, qty) against the tables (ps, ls, ci):
\* the result and the tables it leaves.
AddItem(ps, ls, ci, nid, u, sku, qty) ==
  LET act == ActiveListIds(ls, u) IN
  IF sku \notin DOMAIN ps
  THEN [res |-> "not_found", lists |-> ls, cart_items |-> ci, next_item_id |-> nid]
  ELSE IF Cardinality(act) > 1
  THEN [res |-> "error", lists |-> ls, cart_items |-> ci, next_item_id |-> nid]
  ELSE
    LET ls0  == IF act = {} THEN Append(ls, NewShoppingList(u)) ELSE ls
        lid  == IF act = {} THEN Len(ls) + 1 ELSE CHOOSE i \in act : TRUE
        lock == LockAfter(ls0[lid].department_lock, ps[sku])
        ls1  == [ls0 EXCEPT ![lid].department_lock = lock]
        hit  == {c \in ci : c.list_id = lid /\ c.product_sku = sku}
    IN IF DeptMismatch(lock, ps[sku])
       THEN [res |-> "dept_mismatch", lists |-> ls1, cart_items |-> ci,
             next_item_id |-> nid]
       ELSE IF Cardinality(hit) > 1
       THEN [res |-> "error", lists |-> ls1, cart_items |-> ci,
             next_item_id |-> nid]
       ELSE [res |-> "ok", lists |-> ls1,
             cart_items |-> UpsertCartItem(ci, nid, lid, sku, qty),
             next_item_id |-> IF hit = {} THEN nid + 1 ELSE nid]

\* The quantity of an add cut down to what the product has in stock.
QtyToAddCapped(ps, sku, action, qty) ==
  IF sku \notin DOMAIN ps THEN qty
  ELSE IF action = "add_all" THEN ps[sku].qty_total
  ELSE IF qty <= Max2(ps[sku].qty_total, 0) THEN qty
  ELSE Max2(ps[sku].qty_total, 0)

\* handlers/list_flow.py process_add_to_cart: the quantity the button carries,
\* or for "add_all" int(product.qty_total), refused when that is <= 0.
QtyToAdd(ps, sku, action, qty) ==
  IF action = "add_all"
  THEN (IF sku \in DOMAIN ps THEN ps[sku].qty_total ELSE 0)
  ELSE qty

\* An add that takes what it adds out of the product's stock.
AddTakesStock(u, sku, action, qty) ==
  LET r == AddItem(products, lists, cart_items, next_item_id, u, sku, qty) IN
  /\ r.res = "ok"
  /\ Len(r.lists) <= MaxLists
  /\ \A c \in r.cart_items : c.quantity <= MaxClaim
  /\ r.next_item_id <= MaxItems + 1
  /\ products' = [products EXCEPT ![sku].qty_total = @ - qty]
  /\ lists' = r.lists
  /\ cart_items' = r.cart_items
  /\ next_item_id' = r.next_item_id
  /\ UNCHANGED <<card, reqs, items>>

ProcessAddToCart(u, sku, action, qty) ==
  LET qty_to_add == QtyToAdd(products, sku, action, qty)
      r == AddItem(products, lists, cart_items, next_item_id, u, sku, qty_to_add)
  IN
  IF action = "add_all" /\ (sku \notin DOMAIN products \/ qty_to_add <= 0)
  THEN UNCHANGED vars
  ELSE /\ r.res = "ok" => Len(r.lists) <= MaxLists
       /\ r.res = "ok" => \A c \in r.cart_items : c.quantity <= MaxClaim
       /\ r.res = "ok" => r.next_item_id <= MaxItems + 1
       /\ lists' = r.lists
       /\ cart_items' = r.cart_items
       /\ next_item_id' = r.next_item_id
       /\ UNCHANGED <<products, card, reqs, items>>

\* clear_list: DELETE of the list's cart items, department_lock = None
ClearList(u) ==
  LET act == ActiveListIds(lists, u) IN
  IF Cardinality(act) > 1
  THEN UNCHANGED vars
  ELSE /\ cart_items' = {c \in cart_items : c.list_id \notin act}
       /\ lists' = [i \in DOMAIN lists |->
                      IF i \in act THEN [lists[i] EXCEPT !.department_lock = NoVal]
                      ELSE lists[i]]
       /\ UNCHANGED <<products, next_item_id, card, reqs, items>>

(***************************************************************************)
(* SmartImporter.run_import (reconciliation), step 3: the rows are the     *)
(* records of the cleaned DataFrame (final_sku, name, group, department,   *)
(* qty_total, price, months_inactive).                                     *)
(***************************************************************************)
FileRow(sku, name, group, dept, qty, price, months) ==
  [final_sku |-> sku, name |-> name, group |-> group, department |-> dept,
   qty_total |-> qty, price |-> price, months_inactive |-> months]

\* A cell of the group / department column as pandas hands it over:
\* a text, a number (10.0, printed "10.0"), NaN for a blank cell, or nothing
\* at all (NoVal) when the file has no such column.
NaN == "NaN"
DotZero == [c \in {"10.0"} |-> "10"]

\* `str(row.get(col)) if row.get(col) else None`: NaN is truthy, str(NaN) is
\* 'nan'.
CellText(cell) ==
  IF cell = NoVal THEN NoVal
  ELSE IF cell = NaN THEN "nan"
  ELSE cell

\* `if dept and dept.endswith('.0'): dept = dept[:-2]`
DeptText(cell) ==
  LET dept == CellText(cell)
  IN IF dept \in DOMAIN DotZero THEN DotZero[dept] ELSE dept

\* The rows of SpecImport's files.
BotRows ==
  { FileRow("A", "n1", "g1", "10", MaxStock, 1, 0),
    FileRow("A", "n2", NaN, NaN, 0, 2, 1),
    FileRow("A", "n3", NoVal, NoVal, MaxStock, 1, 0),
    FileRow("B", "n1", "g1", "10.0", MaxStock, 1, 0),
    FileRow("B", "n1", "g1", "20", -1, 1, 0),
    FileRow("B", "n2", NaN, NoVal, 0, 2, 1) }

SeqsUpTo(S, n) == UNION {[1..k -> S] : k \in 0..n}

BotFiles == SeqsUpTo(BotRows, MaxRows)

\* A sheet with both items.
BothItems ==
  <<FileRow("A", "n1", "g1", "10", MaxStock, 1, 0),
    FileRow("B", "n1", "g1", "20", MaxStock, 1, 0)>>

\* The files the administrator sends in Spec: the empty sheet, the sheet with
\* both items, one that moves B to A's department with a negative balance,
\* and one without group and department columns whose only row is A.
CoreFiles ==
  { <<>>,
    BothItems,
    <<FileRow("A", "n1", "g1", "10", MaxStock, 1, 0),
      FileRow("B", "n1", "g1", "10", -1, 1, 0)>>,
    <<FileRow("A", "n1", NoVal, NoVal, 0, 1, 0)>> }

FileSkus(file) == {file[i].final_sku : i \in DOMAIN file}

\* An UPDATE that adds the row's quantity to the balance.
ImportUpdateAdds(prod, row) ==
  [prod EXCEPT !.name = row.name,
               !.qty_total = @ + row.qty_total,
               !.price = row.price,
               !.months_inactive = row.months_inactive,
               !.is_active = TRUE]

\* lines 195-205: UPDATE of a product the database already holds
ImportUpdate(prod, row) ==
  [prod EXCEPT !.name = row.name,
               !.qty_total = row.qty_total,
               !.price = row.price,
               !.months_inactive = row.months_inactive,
               !.is_active = TRUE,
               !.group = IF CellText(row.group) # NoVal
                         THEN CellText(row.group) ELSE @,
               !.department = IF DeptText(row.department) # NoVal
                              THEN DeptText(row.department) ELSE @]

\* lines 207-218: INSERT of a new product
ImportInsert(row) ==
  [name |-> row.name, group |-> CellText(row.group),
   department |-> DeptText(row.department),
   qty_total |-> row.qty_total, price |-> row.price,
   months_inactive |-> row.months_inactive, is_active |-> TRUE]

\* lines 224-228: soft delete of a product the file does not name
ImportDeactivate(prod) == [prod EXCEPT !.is_active = FALSE, !.qty_total = 0]

\* The loop over file_products. db is the dictionary db_products read before
\* the loop (it is not extended by the inserts); acc.upd the loaded objects,
\* acc.new the objects added to the session, acc.clash whether two of them
\* carry the same primary key.
RECURSIVE ImportRows(_, _, _)
ImportRows(acc, db, file) ==
  IF file = <<>> THEN acc
  ELSE LET row == Head(file)
           sku == row.final_sku
           nxt == IF sku \in db
                  THEN [acc EXCEPT !.upd[sku] = ImportUpdate(@, row),
                                   !.stats.updated = @ + 1]
                  ELSE [acc EXCEPT
                          !.new = [k \in DOMAIN acc.new \cup {sku} |->
                                     IF k = sku THEN ImportInsert(row) ELSE acc.new[k]],
                          !.clash = @ \/ sku \in DOMAIN acc.new,
                          !.stats.created = @ + 1]
       IN ImportRows(nxt, db, Tail(file))

ImportSync(ps, file) ==
  LET db   == DOMAIN ps
      acc  == ImportRows([upd |-> ps, new |-> <<>>, clash |-> FALSE,
                          stats |-> NoStats], db, file)
      gone == {k \in db : k \notin FileSkus(file) /\ acc.upd[k].is_active}
  IN [ok    |-> ~acc.clash,
      table |-> [k \in db \cup DOMAIN acc.new |->
                   IF k \in gone THEN ImportDeactivate(acc.upd[k])
                   ELSE IF k \in db THEN acc.upd[k]
                   ELSE acc.new[k]],
      stats |-> [acc.stats EXCEPT !.deactivated = Cardinality(gone)]]

\* An import that also deletes the cart items of the products it deactivates.
RunImportCascade(file) ==
  LET r == ImportSync(products, file) IN
  /\ products' = IF r.ok THEN r.table ELSE products
  /\ cart_items' = {c \in cart_items :
                      ~r.ok \/ c.product_sku \in FileSkus(file)}
  /\ UNCHANGED <<lists, next_item_id, card, reqs, items>>

\* handlers/admin_panel.py process_import_file -> run_import, run alone.
\* Two new rows with one sku make the flush fail on the primary key: the
\* handler reports the error and the session is closed without a commit.
RunImport(file) ==
  LET r == ImportSync(products, file) IN
  /\ products' = IF r.ok THEN r.table ELSE products
  /\ UNCHANGED <<lists, cart_items, next_item_id, card, reqs, items>>

(***************************************************************************)
(* Spec: the bot with one request at a time.  The database starts as       *)
(* init_db leaves it: every table empty.                                   *)
(***************************************************************************)
Init ==
  /\ products = <<>>
  /\ lists = <<>>
  /\ cart_items = {}
  /\ next_item_id = 1
  /\ card = Card("none", NoVal, 0)
  /\ reqs = <<>>
  /\ items = <<>>

Actions == {"add", "add_all"}

Next ==
  \/ \E u \in Users : CreateNewList(u)
  \/ \E u \in Users, sku \in SKUs, a \in Actions, q \in 1..MaxDelta :
       ProcessAddToCart(u, sku, a, q)
  \/ \E u \in Users : ClearList(u)
  \/ \E id \in 1..MaxLists : SaveCurrentList(id)
  \/ \E file \in CoreFiles : RunImport(file)

Spec == Init /\ [][Next]_vars

(***************************************************************************)
(* SpecImport: the administrator sends one file after another.             *)
(***************************************************************************)
NextImport == \E file \in BotFiles : RunImport(file)

SpecImport == Init /\ [][NextImport]_vars

(***************************************************************************)
(* SpecConc: two requests are handled at the same time.  aiogram runs each *)
(* update's handler as its own task; DbSessionMiddleware gives each its    *)
(* own AsyncSession, so what a handler has read stays in its session       *)
(* (req.snap, req.act, req.dept, req.lock, req.hit) while the other runs,  *)
(* and its commit writes the values it computed from that.  A handler      *)
(* gives way only at an await: one action per stretch between awaits.      *)
(*                                                                         *)
(* The database starts in a state the bot reaches on its own: after the    *)
(* import of BothItems, and after one or two users then claimed item A.    *)
(***************************************************************************)
Db(ps, ls, ci, nid) ==
  [products |-> ps, lists |-> ls, cart_items |-> ci, next_item_id |-> nid]

AddDb(db, u, sku, qty) ==
  LET r == AddItem(db.products, db.lists, db.cart_items, db.next_item_id, u, sku, qty)
  IN Db(db.products, r.lists, r.cart_items, r.next_item_id)

Cat0 == ImportSync(<<>>, BothItems).table

ConcStarts ==
  LET db0 == Db(Cat0, <<>>, {}, 1)
      db1 == AddDb(db0, 1, "A", 1)
      db2 == AddDb(db1, 2, "A", 1)
  IN {db0, db1, db2}

InitConc ==
  /\ \E db \in ConcStarts :
       /\ products = db.products
       /\ lists = db.lists
       /\ cart_items = db.cart_items
       /\ next_item_id = db.next_item_id
  /\ card = Card("none", NoVal, 0)
  /\ reqs = <<>>
  /\ items = <<>>

NoSnap == [found |-> FALSE, status |-> NoVal, rows |-> {}, qty |-> <<>>]

\* A request: the handler (op), where it stands (pc), its arguments, what its
\* session has loaded, and its answer once it is done.
Req(op, pc, u, sku, qty, list_id, snap, res) ==
  [op |-> op, pc |-> pc, u |-> u, sku |-> sku, qty |-> qty, list_id |-> list_id,
   snap |-> snap, act |-> {}, dept |-> NoVal, lock |-> NoVal, hit |-> {},
   file |-> <<>>, db |-> <<>>, res |-> res]

ReqAt(i, op, pc) == i \in DOMAIN reqs /\ reqs[i].op = op /\ reqs[i].pc = pc

\* save_current_list up to the return of `await self.session.execute(stmt)`
ConcSave(list_id) ==
  LET snap == ExportLoad(products, lists, cart_items, list_id) IN
  /\ Len(reqs) < MaxReqs
  /\ reqs' = Append(reqs,
               IF ExportRejects(snap)
               THEN Req("save", "done", 0, NoVal, 0, list_id, snap, "empty")
               ELSE Req("save", "loaded", 0, NoVal, 0, list_id, snap, "none"))
  /\ UNCHANGED <<botVars, card, items>>

\* ... and from there through the loop to `await self.session.commit()`
ConcSaveCommit(i) ==
  /\ ReqAt(i, "save", "loaded")
  /\ LET snap == reqs[i].snap
         out  == ExportSplit(snap)
     IN /\ products' = ExportCommitProducts(products, snap, out)
        /\ cart_items' = ExportCommitItems(cart_items, snap, out)
        /\ lists' = ExportCommitLists(lists, reqs[i].list_id, snap)
  /\ reqs' = [reqs EXCEPT ![i].pc = "done", ![i].res = "files"]
  /\ UNCHANGED <<next_item_id, card, items>>

\* DbSessionMiddleware: `async with async_session_maker() as session` closes
\* the session when the handler returns or raises; closing rolls back what
\* was not committed.  committed is the database, pending the database as
\* the session's changed objects would have made it.
SessionCloseCommits(committed, pending) == pending

SessionClose(committed, pending) == committed

\* The database as the session of a settlement sees it when the call fails
\* after n passes of the loop: n cart items split, their products
\* decremented, the status not yet 'saved'.
ExportPending(db, snap, n) ==
  LET order == SortedSeq({c.id : c \in snap.rows})
      out   == ExportFold([qty |-> snap.qty, rows |-> {}, main |-> {},
                           surplus |-> {}],
                          snap.rows, SubSeq(order, 1, n))
      part  == [snap EXCEPT !.rows = {c \in snap.rows :
                                        \E m \in 1..n : order[m] = c.id}]
  IN Db(ExportCommitProducts(db.products, snap, out),
        db.lists,
        ExportCommitItems(db.cart_items, part, out),
        db.next_item_id)

\* ... or an exception on the way (the Excel writer, a price or a user that
\* is None) after n passes of the loop: the handler ends without a commit.
ConcSaveFail(i, n) ==
  /\ ReqAt(i, "save", "loaded")
  /\ n \in 1..Cardinality(reqs[i].snap.rows)
  /\ LET db  == Db(products, lists, cart_items, next_item_id)
         end == SessionClose(db, ExportPending(db, reqs[i].snap, n))
     IN /\ products' = end.products
        /\ lists' = end.lists
        /\ cart_items' = end.cart_items
        /\ next_item_id' = end.next_item_id
  /\ reqs' = [reqs EXCEPT ![i].pc = "done", ![i].res = "failed"]
  /\ UNCHANGED <<card, items>>

\* The files the administrator sends while other requests run: the sheet the
\* catalog came from, and one after a delivery of item A.
ConcFiles ==
  { BothItems,
    <<FileRow("A", "n1", "g1", "10", MaxStock + 1, 1, 0),
      FileRow("B", "n1", "g1", "20", MaxStock, 1, 0)>> }

\* process_import_file -> run_import up to the return of the SELECT of all
\* products: req.db is db_products, the Product objects of this session.
ConcImport(file) ==
  /\ Len(reqs) < MaxReqs
  /\ reqs' = Append(reqs,
               [Req("import", "loaded", 0, NoVal, 0, 0, NoSnap, "none")
                  EXCEPT !.file = file, !.db = products])
  /\ UNCHANGED <<botVars, card, items>>

\* What the commit of run_import writes: for a product that was loaded, the
\* attributes the loop changed (an UPDATE of those columns); for a new one,
\* the INSERT.
ImportCommitProducts(ps, db, table) ==
  [k \in DOMAIN ps \cup DOMAIN table |->
     IF k \in DOMAIN db
     THEN [f \in DOMAIN ps[k] |->
             IF table[k][f] # db[k][f] THEN table[k][f] ELSE ps[k][f]]
     ELSE IF k \in DOMAIN table THEN table[k]
     ELSE ps[k]]

\* ... and from there through the loops to `await self.session.commit()`.
\* An INSERT of a sku the table holds by now fails on the primary key.
ConcImportCommit(i) ==
  /\ ReqAt(i, "import", "loaded")
  /\ LET r    == reqs[i]
         sync == ImportSync(r.db, r.file)
         fails == ~sync.ok \/ \E k \in DOMAIN sync.table :
                                  k \notin DOMAIN r.db /\ k \in DOMAIN products
     IN /\ products' = IF fails THEN products
                       ELSE ImportCommitProducts(products, r.db, sync.table)
        /\ reqs' = [reqs EXCEPT ![i].pc = "done",
                                ![i].res = IF fails THEN "failed" ELSE "ok"]
  /\ UNCHANGED <<lists, cart_items, next_item_id, card, items>>

\* cmd_new_list up to the return of get_active_list
ConcNewList(u) ==
  LET act == ActiveListIds(lists, u) IN
  /\ Len(reqs) < MaxReqs
  /\ reqs' = Append(reqs,
               IF Cardinality(act) > 1
               THEN Req("new_list", "done", u, NoVal, 0, 0, NoSnap, "error")
               ELSE [Req("new_list", "read", u, NoVal, 0, 0, NoSnap, "none")
                       EXCEPT !.act = act])
  /\ UNCHANGED <<botVars, card, items>>

\* ... and its commit: the old list it read becomes abandoned, the new one
\* is inserted
ConcNewListCommit(i) ==
  /\ ReqAt(i, "new_list", "read")
  /\ Len(lists) < MaxLists
  /\ lists' = CreateNewListWrite(lists, reqs[i].act, reqs[i].u)
  /\ reqs' = [reqs EXCEPT ![i].pc = "done", ![i].res = "ok"]
  /\ UNCHANGED <<products, cart_items, next_item_id, card, items>>

\* process_add_to_cart ("add") up to the return of the product SELECT
ConcAdd(u, sku, qty) ==
  /\ Len(reqs) < MaxReqs
  /\ reqs' = Append(reqs,
               IF sku \notin DOMAIN products
               THEN Req("add", "done", u, sku, qty, 0, NoSnap, "not_found")
               ELSE [Req("add", "prod", u, sku, qty, 0, NoSnap, "none")
                       EXCEPT !.dept = DeptOrDefault(products[sku].department)])
  /\ UNCHANGED <<botVars, card, items>>

\* add_item step 2 up to the return of get_active_list; req.lock is the
\* department_lock of the list that was read
ConcAddList(i) ==
  /\ ReqAt(i, "add", "prod")
  /\ LET act == ActiveListIds(lists, reqs[i].u) IN
     reqs' = [reqs EXCEPT
       ![i].pc = IF Cardinality(act) > 1 THEN "done" ELSE "list",
       ![i].res = IF Cardinality(act) > 1 THEN "error" ELSE @,
       ![i].act = act,
       ![i].lock = IF Cardinality(act) = 1
                          THEN lists[CHOOSE l \in act : TRUE].department_lock
                          ELSE NoVal]
  /\ UNCHANGED <<botVars, card, items>>

\* add_item step 3.  A list that was not found is inserted; a list without a
\* lock gets the product's department and the session commits.  Otherwise
\* the check runs and, when it passes, the cart item SELECT follows without
\* an await in between.
ConcAddLock(i) ==
  /\ ReqAt(i, "add", "list")
  /\ LET r    == reqs[i]
         isNew == r.act = {}
         lid  == IF isNew THEN Len(lists) + 1 ELSE CHOOSE l \in r.act : TRUE
         ls0  == IF isNew THEN Append(lists, NewShoppingList(r.u)) ELSE lists
     IN IF r.lock = NoVal
        THEN /\ Len(ls0) <= MaxLists
             /\ lists' = [ls0 EXCEPT ![lid].department_lock = r.dept]
             /\ reqs' = [reqs EXCEPT ![i].pc = "locked", ![i].list_id = lid]
        ELSE /\ lists' = lists
             /\ reqs' = [reqs EXCEPT
                  ![i].list_id = lid,
                  ![i].pc = IF r.lock # r.dept THEN "done" ELSE "item",
                  ![i].res = IF r.lock # r.dept THEN "dept_mismatch" ELSE @,
                  ![i].hit = IF r.lock # r.dept THEN {}
                             ELSE {c \in cart_items :
                                     c.list_id = lid /\ c.product_sku = r.sku}]
  /\ UNCHANGED <<products, cart_items, next_item_id, card, items>>

\* add_item step 4 after the commit of the lock: the cart item SELECT
ConcAddItem(i) ==
  /\ ReqAt(i, "add", "locked")
  /\ reqs' = [reqs EXCEPT
       ![i].pc = "item",
       ![i].hit = {c \in cart_items : c.list_id = reqs[i].list_id
                                      /\ c.product_sku = reqs[i].sku}]
  /\ UNCHANGED <<botVars, card, items>>

\* add_item step 4, `cart_item.quantity += qty` or the INSERT, and the commit.
\* The UPDATE carries the quantity computed from the row as it was read.
ConcAddCommit(i) ==
  /\ ReqAt(i, "add", "item")
  /\ LET r == reqs[i] IN
     IF Cardinality(r.hit) > 1
     THEN /\ reqs' = [reqs EXCEPT ![i].pc = "done", ![i].res = "error"]
          /\ UNCHANGED <<cart_items, next_item_id>>
     ELSE IF r.hit = {}
     THEN /\ next_item_id <= MaxItems
          /\ cart_items' = cart_items \cup
                             {NewCartItem(next_item_id, r.list_id, r.sku, r.qty)}
          /\ next_item_id' = next_item_id + 1
          /\ reqs' = [reqs EXCEPT ![i].pc = "done", ![i].res = "ok"]
     ELSE LET old == CHOOSE c \in r.hit : TRUE IN
          /\ old.quantity + r.qty <= MaxClaim
          /\ cart_items' = {IF c.id = old.id
                            THEN [c EXCEPT !.quantity = old.quantity + r.qty]
                            ELSE c : c \in cart_items}
          /\ next_item_id' = next_item_id
          /\ reqs' = [reqs EXCEPT ![i].pc = "done", ![i].res = "ok"]
  /\ UNCHANGED <<products, lists, card, items>>

\* clear_list up to the return of get_active_list; req.lock is the
\* department_lock of the list that was read
ConcClear(u) ==
  LET act == ActiveListIds(lists, u) IN
  /\ Len(reqs) < MaxReqs
  /\ reqs' = Append(reqs,
               IF Cardinality(act) > 1
               THEN Req("clear", "done", u, NoVal, 0, 0, NoSnap, "error")
               ELSE IF act = {}
               THEN Req("clear", "done", u, NoVal, 0, 0, NoSnap, "ok")
               ELSE [Req("clear", "read", u, NoVal, 0, CHOOSE l \in act : TRUE,
                         NoSnap, "none")
                       EXCEPT !.act = act,
                              !.lock = lists[CHOOSE l \in act : TRUE].department_lock])
  /\ UNCHANGED <<botVars, card, items>>

\* ... and its transaction: the DELETE of the list's cart items, and the
\* UPDATE of department_lock, which the flush emits only when the list that
\* was read carried a lock.
ConcClearCommit(i) ==
  /\ ReqAt(i, "clear", "read")
  /\ cart_items' = {c \in cart_items : c.list_id # reqs[i].list_id}
  /\ lists' = IF reqs[i].lock # NoVal
              THEN [lists EXCEPT ![reqs[i].list_id].department_lock = NoVal]
              ELSE lists
  /\ reqs' = [reqs EXCEPT ![i].pc = "done", ![i].res = "ok"]
  /\ UNCHANGED <<products, next_item_id, card, items>>

NextConc ==
  \/ \E id \in 1..MaxLists : ConcSave(id)
  \/ \E i \in 1..MaxReqs : ConcSaveCommit(i)
  \/ \E i \in 1..MaxReqs, n \in 1..MaxItems : ConcSaveFail(i, n)
  \/ \E file \in ConcFiles : ConcImport(file)
  \/ \E i \in 1..MaxReqs : ConcImportCommit(i)
  \/ \E u \in Users : ConcNewList(u)
  \/ \E i \in 1..MaxReqs : ConcNewListCommit(i)
  \/ \E u \in Users, sku \in SKUs, q \in 1..MaxDelta : ConcAdd(u, sku, q)
  \/ \E i \in 1..MaxReqs : ConcAddList(i)
  \/ \E i \in 1..MaxReqs : ConcAddLock(i)
  \/ \E i \in 1..MaxReqs : ConcAddItem(i)
  \/ \E i \in 1..MaxReqs : ConcAddCommit(i)
  \/ \E u \in Users : ConcClear(u)
  \/ \E i \in 1..MaxReqs : ConcClearCommit(i)

SpecConc == InitConc /\ [][NextConc]_vars

(***************************************************************************)
(* SpecSeq: two users have claimed item A, and the lists are settled one   *)
(* request after the other; reqs is the journal of the settlements, each   *)
(* with what its SELECT loaded.  The database starts after the import of a *)
(* sheet with A (any balance a sheet can carry) and the two users' adds.   *)
(***************************************************************************)
SeqStarts ==
  { AddDb(AddDb(Db(ImportSync(<<>>, <<FileRow("A", "n1", "g1", "10", s, 1, 0)>>).table,
                   <<>>, {}, 1),
                1, "A", q1),
          2, "A", q2) :
      s \in -1..MaxSeqStock, q1 \in 1..MaxClaim, q2 \in 1..MaxClaim }

InitSeq ==
  /\ \E db \in SeqStarts :
       /\ products = db.products
       /\ lists = db.lists
       /\ cart_items = db.cart_items
       /\ next_item_id = db.next_item_id
  /\ card = Card("none", NoVal, 0)
  /\ reqs = <<>>
  /\ items = <<>>

\* save_current_list -> export_user_list from its SELECT to its commit, with
\* no other request in between.
SeqSave(list_id) ==
  LET snap == ExportLoad(products, lists, cart_items, list_id)
      out  == ExportSplit(snap)
  IN /\ Len(reqs) < MaxReqs
     /\ IF ExportRejects(snap)
        THEN /\ reqs' = Append(reqs, Req("save", "done", 0, NoVal, 0, list_id,
                                         snap, "empty"))
             /\ UNCHANGED botVars
        ELSE /\ products' = ExportCommitProducts(products, snap, out)
             /\ cart_items' = ExportCommitItems(cart_items, snap, out)
             /\ lists' = ExportCommitLists(lists, list_id, snap)
             /\ next_item_id' = next_item_id
             /\ reqs' = Append(reqs, Req("save", "done", 0, NoVal, 0, list_id,
                                         snap, "files"))
     /\ UNCHANGED <<card, items>>

NextSeq == \E id \in 1..MaxLists : SeqSave(id)

SpecSeq == InitSeq /\ [][NextSeq]_vars

(***************************************************************************)
(* src/app: the items table (sku -> row) of SqliteItemsRepository.  Of the *)
(* columns, dept_name, unit and the timestamps are left out: they take no  *)
(* part in any decision.                                                   *)
(***************************************************************************)
RawItem(sku, dept_code, group_name, name, mt_months, qty, sum, price, reserve) ==
  [sku |-> sku, dept_code |-> dept_code, group_name |-> group_name,
   name |-> name, mt_months |-> mt_months, qty |-> qty, sum |-> sum,
   price |-> price, reserve |-> reserve]

\* A numeric value that may be None.
Some(x) == [some |-> TRUE, val |-> x]
NoNum == [some |-> FALSE, val |-> 0]

\* The dictionaries the importer hands to upsert_from_import; "" is the sku
\* of a row without one.
AppRows ==
  { RawItem("A", "10", "g1", "n1", 0, Some(2), Some(4), NoNum, Some(1)),
    RawItem("A", "10", "g1", "n1", 0, Some(0), Some(0), NoNum, NoNum),
    RawItem("A", "20", "g1", "n2", 1, Some(1), Some(1), NoNum, Some(2)),
    RawItem("B", "20", "g1", "n1", 0, Some(1), Some(3), NoNum, NoNum),
    RawItem("B", "20", "g1", "n2", 1, NoNum, NoNum, Some(5), Some(2)),
    RawItem("", "10", "g1", "n1", 0, Some(1), Some(1), NoNum, NoNum) }

AppFiles == SeqsUpTo(AppRows, MaxRows)

\* _normalize_import_item, for a row that has a sku.  The sums of AppRows are
\* multiples of their quantities, so that sum / qty is the integer quotient.
NormalizeImportItem(raw) ==
  LET price == IF ~raw.price.some /\ raw.qty.some /\ raw.qty.val # 0
                  /\ raw.sum.some
               THEN Some(raw.sum.val \div raw.qty.val)
               ELSE raw.price
  IN [sku          |-> raw.sku,
      dept_code    |-> raw.dept_code,
      group_name   |-> raw.group_name,
      name         |-> raw.name,
      mt_months    |-> raw.mt_months,
      base_qty     |-> IF raw.qty.some THEN raw.qty.val ELSE 0,
      base_sum     |-> IF raw.sum.some THEN raw.sum.val ELSE 0,
      price        |-> price,
      base_reserve |-> IF raw.reserve.some THEN raw.reserve.val ELSE 0]

\* `if not sku: raise ValueError`: one such row fails the whole call before
\* the transaction begins.
AppImportRaises(raw_items) == \E i \in DOMAIN raw_items : raw_items[i].sku = ""

AppSeenSkus(raw_items) == {raw_items[i].sku : i \in DOMAIN raw_items}

\* INSERT ... ON CONFLICT(sku) DO UPDATE of one normalized item
AppUpsertOne(tbl, item) ==
  LET row == [dept_code    |-> item.dept_code,
              group_name   |-> item.group_name,
              name         |-> item.name,
              mt_months    |-> item.mt_months,
              base_qty     |-> item.base_qty,
              base_sum     |-> item.base_sum,
              price        |-> item.price,
              base_reserve |-> item.base_reserve,
              is_active    |-> IF item.base_qty = 0 THEN 0 ELSE 1]
  IN [k \in DOMAIN tbl \cup {item.sku} |-> IF k = item.sku THEN row ELSE tbl[k]]

RECURSIVE AppUpsertAll(_, _)
AppUpsertAll(tbl, raw_items) ==
  IF raw_items = <<>> THEN tbl
  ELSE AppUpsertAll(AppUpsertOne(tbl, NormalizeImportItem(Head(raw_items))),
                    Tail(raw_items))

\* UPDATE items SET is_active = 0 WHERE sku NOT IN (seen_skus)
AppDeactivateMissing(tbl, seen) ==
  [k \in DOMAIN tbl |-> IF k \notin seen THEN [tbl[k] EXCEPT !.is_active = 0]
                        ELSE tbl[k]]

\* The table upsert_from_import leaves (deactivate_missing = True).
AppImportTable(tbl, raw_items) ==
  IF AppImportRaises(raw_items) \/ raw_items = <<>>
  THEN tbl
  ELSE AppDeactivateMissing(AppUpsertAll(tbl, raw_items), AppSeenSkus(raw_items))

\* The counters upsert_from_import returns: added and updated are never
\* incremented, deactivated is the rowcount of the deactivating UPDATE.
AppImportStats(tbl, raw_items) ==
  [added |-> 0, updated |-> 0,
   deactivated |-> IF raw_items = <<>> THEN 0
                   ELSE Cardinality({k \in DOMAIN AppUpsertAll(tbl, raw_items) :
                                       k \notin AppSeenSkus(raw_items)})]

UpsertFromImport(raw_items) ==
  /\ items' = AppImportTable(items, raw_items)
  /\ UNCHANGED <<botVars, card, reqs>>

\* /item <sku>.  active_list is what get_active_list_for_user returned: the
\* action keyboard, and with it `available`, is built only for a user who
\* has an active list.
CmdItem(sku, active_list) ==
  /\ card' = IF sku \notin DOMAIN items
             THEN Card("not_found", sku, 0)
             ELSE IF active_list
             THEN Card("actions", sku,
                       Max2(0, items[sku].base_qty - items[sku].base_reserve))
             ELSE Card("plain", sku, 0)
  /\ UNCHANGED <<botVars, reqs, items>>

NextApp ==
  \/ \E raw_items \in AppFiles : UpsertFromImport(raw_items)
  \/ \E sku \in SKUs, active_list \in BOOLEAN : CmdItem(sku, active_list)

SpecApp == Init /\ [][NextApp]_vars

(***************************************************************************)
(* SpecRecon: both reconciliations, with the ways they fail.  reqs holds   *)
(* the request that failed last (req.qty: the rows it had handled).        *)
(***************************************************************************)
ReconFiles == SeqsUpTo({r \in BotRows : r.qty_total = MaxStock}, MaxRows)

AppReconFiles == SeqsUpTo({r \in AppRows : r.mt_months = 0}, MaxRows)

\* The catalog as the session of run_import holds it after n rows of the
\* loop; with every row handled, after the soft delete as well (the commit
\* itself fails).
ImportPending(ps, file, n) ==
  IF n = Len(file) THEN ImportSync(ps, file).table
  ELSE LET acc == ImportRows([upd |-> ps, new |-> <<>>, clash |-> FALSE,
                              stats |-> NoStats], DOMAIN ps, SubSeq(file, 1, n))
       IN [k \in DOMAIN ps \cup DOMAIN acc.new |->
             IF k \in DOMAIN ps THEN acc.upd[k] ELSE acc.new[k]]

\* run_import raises: before it reads the database (unreadable file, no
\* name column: n = 0), in the loop after n rows, or in its commit.
\* process_import_file reports the error; the session is closed.
RunImportFails(file, n) ==
  /\ n \in 0..Len(file)
  /\ products' = SessionClose(products, ImportPending(products, file, n))
  /\ reqs' = <<Req("import", "done", 0, NoVal, n, 0, NoSnap, "failed")>>
  /\ UNCHANGED <<lists, cart_items, next_item_id, card, items>>

\* `except Exception: await conn.rollback()`
AppRollback(before, inTx) == before

\* The items table inside the transaction after n upserts; with every row
\* upserted, after the deactivation as well.
AppPending(tbl, raw_items, n) ==
  IF n = Len(raw_items)
  THEN AppDeactivateMissing(AppUpsertAll(tbl, raw_items), AppSeenSkus(raw_items))
  ELSE AppUpsertAll(tbl, SubSeq(raw_items, 1, n))

\* upsert_from_import raises inside its transaction, after n upserts.
UpsertFromImportFails(raw_items, n) ==
  /\ raw_items # <<>>
  /\ ~AppImportRaises(raw_items)
  /\ n \in 0..Len(raw_items)
  /\ items' = AppRollback(items, AppPending(items, raw_items, n))
  /\ reqs' = <<Req("upsert", "done", 0, NoVal, n, 0, NoSnap, "failed")>>
  /\ UNCHANGED <<botVars, card>>

NextRecon ==
  \/ \E file \in ReconFiles : RunImport(file)
  \/ \E file \in ReconFiles, n \in 0..MaxRows : RunImportFails(file, n)
  \/ \E raw_items \in AppReconFiles : UpsertFromImport(raw_items)
  \/ \E raw_items \in AppReconFiles, n \in 0..MaxRows :
       UpsertFromImportFails(raw_items, n)

SpecRecon == Init /\ [][NextRecon]_vars

(***************************************************************************)
(* SpecSheet: SmartImporter.run_import from the sheet as pandas reads it   *)
(* to the rows handed to the reconciliation.  Texts are sequences of       *)
(* one-character strings so that Python's str methods and the regular      *)
(* expression can be computed; Nbsp stands for the character U+00A0.       *)
(***************************************************************************)
Nbsp == "nbsp"
Digits == {"0", "1", "2", "3", "4", "5", "6", "7", "8", "9"}
UpperCase == <<"A", "B", "C", "D", "E", "F", "G", "H", "I", "J", "K", "L", "M",
               "N", "O", "P", "Q", "R", "S", "T", "U", "V", "W", "X", "Y", "Z">>
LowerCase == <<"a", "b", "c", "d", "e", "f", "g", "h", "i", "j", "k", "l", "m",
               "n", "o", "p", "q", "r", "s", "t", "u", "v", "w", "x", "y", "z">>
Letters == {UpperCase[i] : i \in DOMAIN UpperCase}
             \cup {LowerCase[i] : i \in DOMAIN LowerCase}
\* str.isspace(): what strip() and float() remove at the ends
Whitespace == {" ", Nbsp}
\* \w of the regular expression
WordChars == Letters \cup Digits \cup {"_"}

\* str.lower()
Lower(s) ==
  [i \in DOMAIN s |->
     IF \E k \in DOMAIN UpperCase : UpperCase[k] = s[i]
     THEN LowerCase[CHOOSE k \in DOMAIN UpperCase : UpperCase[k] = s[i]]
     ELSE s[i]]

\* str.strip()
Strip(s) ==
  LET keep == {i \in DOMAIN s : s[i] \notin Whitespace}
  IN IF keep = {} THEN <<>>
     ELSE SubSeq(s, MinOfSet(keep), CHOOSE i \in keep : \A j \in keep : j <= i)

\* s.split(c)[0]: the text before the first c
SplitFirst(s, c) ==
  LET at == {i \in DOMAIN s : s[i] = c}
  IN IF at = {} THEN s ELSE SubSeq(s, 1, MinOfSet(at) - 1)

\* s.replace(old, new), occurrences taken from the left, not overlapping
RECURSIVE Replace(_, _, _)
Replace(s, old, new) ==
  IF Len(s) < Len(old) THEN s
  ELSE IF SubSeq(s, 1, Len(old)) = old
       THEN new \o Replace(SubSeq(s, Len(old) + 1, Len(s)), old, new)
       ELSE <<Head(s)>> \o Replace(Tail(s), old, new)

\* lines 29-31: str(header).lower().strip().split('(')[0].strip()
NormalizeHeader(header) == Strip(SplitFirst(Strip(Lower(header)), "("))

\* lines 14-23: DEFAULT_MAPPING in the order of the dictionary, each field
\* with its Latin-script synonyms (the sheets of the model carry Latin-script
\* headers, which no Cyrillic synonym equals).
FieldSku    == <<"s", "k", "u">>
FieldName   == <<"n", "a", "m", "e">>
FieldQty    == <<"q", "t", "y", "_", "t", "o", "t", "a", "l">>
FieldPrice  == <<"p", "r", "i", "c", "e">>
FieldSum    == <<"t", "o", "t", "a", "l", "_", "s", "u", "m">>
FieldGroup  == <<"g", "r", "o", "u", "p">>
FieldDept   == <<"d", "e", "p", "a", "r", "t", "m", "e", "n", "t">>
FieldMonths == <<"m", "o", "n", "t", "h", "s", "_", "i", "n", "a", "c", "t", "i", "v", "e">>

DEFAULT_MAPPING ==
  << [field |-> FieldSku,
      synonyms |-> {<<"s", "k", "u">>, <<"c", "o", "d", "e">>, <<"i", "d">>,
                    <<"i", "t", "e", "m", "_", "n", "o">>}],
     [field |-> FieldName,
      synonyms |-> {<<"n", "a", "m", "e">>, <<"t", "i", "t", "l", "e">>,
                    <<"d", "e", "s", "c", "r", "i", "p", "t", "i", "o", "n">>}],
     [field |-> FieldQty,
      synonyms |-> {<<"q", "t", "y">>, <<"q", "u", "a", "n", "t", "i", "t", "y">>,
                    <<"c", "o", "u", "n", "t">>}],
     [field |-> FieldPrice,
      synonyms |-> {<<"p", "r", "i", "c", "e">>, <<"c", "o", "s", "t">>}],
     [field |-> FieldSum,
      synonyms |-> {<<"s", "u", "m">>, <<"t", "o", "t", "a", "l">>,
                    <<"m", "o", "n", "e", "y">>}],
     [field |-> FieldGroup,
      synonyms |-> {<<"g", "r", "o", "u", "p">>,
                    <<"c", "a", "t", "e", "g", "o", "r", "y">>, <<"c", "a", "t">>}],
     [field |-> FieldDept,
      synonyms |-> {<<"d", "e", "p", "t">>,
                    <<"d", "e", "p", "a", "r", "t", "m", "e", "n", "t">>}],
     [field |-> FieldMonths,
      synonyms |-> {<<"m", "o", "n", "t", "h", "s">>,
                    <<"p", "e", "r", "i", "o", "d">>}] >>

\* _detect_column returns None for a header it does not know; the caller's
\* `if field:` treats None and '' alike, and both are the empty text here.
NoField == <<>>

\* lines 48-56: the first field of DEFAULT_MAPPING one of whose synonyms IS
\* the normalised header (`norm_header in synonyms`, then `syn == norm_header`)
DefaultField(norm_header) ==
  LET hit == {k \in DOMAIN DEFAULT_MAPPING :
                norm_header \in DEFAULT_MAPPING[k].synonyms}
  IN IF hit = {} THEN NoField ELSE DEFAULT_MAPPING[MinOfSet(hit)].field

\* lines 40-58: db_map is the import_mappings table, header -> field
DetectColumn(header, db_map) ==
  LET norm_header == NormalizeHeader(header)
  IN IF norm_header \in DOMAIN db_map THEN db_map[norm_header]
     ELSE DefaultField(norm_header)

\* lines 108-115: the column names after df.rename(columns=rename_map); a
\* header that is not recognised keeps its own (stripped, line 74) name
RenameColumns(headers, db_map) ==
  [j \in DOMAIN headers |->
     IF DetectColumn(headers[j], db_map) # NoField
     THEN DetectColumn(headers[j], db_map)
     ELSE Strip(headers[j])]

\* A cell as pandas hands it over: NaN for a blank cell, otherwise the text
\* str() gives for its value ("70123456.0" for a number read as a float).
Cell(text) == [isna |-> FALSE, text |-> text]
NaNCell == [isna |-> TRUE, text |-> <<>>]

HasCol(cols, field) == \E j \in DOMAIN cols : cols[j] = field
RowCell(cols, row, field) == row[CHOOSE j \in DOMAIN cols : cols[j] = field]

\* re.search(r'\b(\d{8})\b', s): the places where eight digits stand between
\* two word boundaries
SkuLen == 8
SkuMatches(s) ==
  {i \in 1..(Len(s) - SkuLen + 1) :
     /\ \A k \in i..(i + SkuLen - 1) : s[k] \in Digits
     /\ i = 1 \/ s[i - 1] \notin WordChars
     /\ i + SkuLen > Len(s) \/ s[i + SkuLen] \notin WordChars}

\* The text extract_sku returns when no sku is found (None).
NoSku == <<>>

\* lines 127-138: extract_sku(row)
ExtractSku(cols, row) ==
  LET val == IF HasCol(cols, FieldSku) /\ ~RowCell(cols, row, FieldSku).isna
             THEN Strip(Replace(RowCell(cols, row, FieldSku).text, <<".", "0">>, <<>>))
             ELSE <<>>
      name == IF HasCol(cols, FieldName)
              THEN RowCell(cols, row, FieldName).text ELSE <<>>
  IN IF val # <<>> THEN val
     ELSE IF SkuMatches(name) # {}
          THEN SubSeq(name, MinOfSet(SkuMatches(name)),
                      MinOfSet(SkuMatches(name)) + SkuLen - 1)
          ELSE NoSku

DigitVal ==
  ("0" :> 0) @@ ("1" :> 1) @@ ("2" :> 2) @@ ("3" :> 3) @@ ("4" :> 4) @@
  ("5" :> 5) @@ ("6" :> 6) @@ ("7" :> 7) @@ ("8" :> 8) @@ ("9" :> 9)

RECURSIVE IntVal(_)
IntVal(ds) ==
  IF ds = <<>> THEN 0
  ELSE 10 * IntVal(SubSeq(ds, 1, Len(ds) - 1)) + DigitVal[ds[Len(ds)]]

\* float(s) for texts made of digits, sign, point, spaces and other
\* characters: white space at the ends is skipped, then an optional sign and
\* digits with at most one point, one digit at least.  Numbers are counted in
\* hundredths (1.5 is 150).
ParseFloat(s) ==
  LET t    == Strip(s)
      neg  == t # <<>> /\ Head(t) = "-"
      body == IF t # <<>> /\ Head(t) \in {"-", "+"} THEN Tail(t) ELSE t
      pts  == {i \in DOMAIN body : body[i] = "."}
      ok   == /\ \A i \in DOMAIN body : body[i] \in Digits \cup {"."}
              /\ Cardinality(pts) <= 1
              /\ \E i \in DOMAIN body : body[i] \in Digits
      int  == IF pts = {} THEN body ELSE SubSeq(body, 1, MinOfSet(pts) - 1)
      frac == IF pts = {} THEN <<>>
              ELSE SubSeq(body, MinOfSet(pts) + 1, Len(body))
      abs  == 100 * IntVal(int) + IntVal(SubSeq(frac \o <<"0", "0">>, 1, 2))
  IN [ok |-> ok, val |-> IF ~ok THEN 0 ELSE IF neg THEN 0 - abs ELSE abs]

\* lines 145-151: clean_float(val)
CleanFloat(cell) ==
  IF cell.isna THEN 0
  ELSE LET s == Replace(Replace(cell.text, <<",">>, <<".">>), <<" ">>, <<>>)
       IN IF ParseFloat(s).ok THEN ParseFloat(s).val ELSE 0

\* lines 154-158: a numeric column is cleaned, a missing one is 0.0
NumCell(cols, row, field) ==
  IF HasCol(cols, field) THEN CleanFloat(RowCell(cols, row, field)) ELSE 0

\* int(x) of line 192 for a number in hundredths
IntOf(v) == IF v >= 0 THEN v \div 100 ELSE 0 - ((0 - v) \div 100)

\* lines 162-167: without a price column the price is total_sum / qty_total
PriceOf(headers, db_map, cols, row) ==
  IF \E j \in DOMAIN headers : DetectColumn(headers[j], db_map) = FieldPrice
  THEN NumCell(cols, row, FieldPrice)
  ELSE IF NumCell(cols, row, FieldQty) > 0
       THEN (100 * NumCell(cols, row, FieldSum)) \div NumCell(cols, row, FieldQty)
       ELSE 0

\* lines 120-122 and 140-142: the rows that are left after
\* dropna(subset=['name']) and dropna(subset=['final_sku'])
NamedRows(cols, rows) ==
  SelectSeq(rows, LAMBDA row : ~RowCell(cols, row, FieldName).isna)
KeptRows(cols, rows) ==
  SelectSeq(NamedRows(cols, rows), LAMBDA row : ExtractSku(cols, row) # NoSku)

\* lines 170-171 and 181-192: the records of the cleaned DataFrame.  The
\* sheets of SpecSheet carry no group and no department column (those cells
\* are the subject of SpecImport), so row.get() gives None for both.
SheetRecords(sheet, db_map) ==
  LET cols == RenameColumns(sheet.headers, db_map)
      kept == KeptRows(cols, sheet.rows)
  IN [i \in DOMAIN kept |->
        FileRow(ExtractSku(cols, kept[i]),
                RowCell(cols, kept[i], FieldName).text,
                NoVal, NoVal,
                NumCell(cols, kept[i], FieldQty),
                PriceOf(sheet.headers, db_map, cols, kept[i]),
                IntOf(NumCell(cols, kept[i], FieldMonths)))]

\* lines 123-124: `raise ValueError` when no column is called name
SheetRaises(sheet, db_map) ==
  ~HasCol(RenameColumns(sheet.headers, db_map), FieldName)

\* The texts of the model's sheets.
HdrSkuId   == <<"S", "K", "U", " ", "(", "i", "d", ")">>
HdrSku     == <<"s", "k", "u">>
HdrName    == <<"N", "a", "m", "e">>
HdrQty     == <<"q", "t", "y">>
HdrQtyLeft == <<"q", "t", "y", " ", "l", "e", "f", "t">>
HdrArt     == <<"a", "r", "t">>

TxtSku     == <<"7", "0", "1", "2", "3", "4", "5", "6">>
TxtSkuNum  == <<"7", "0", "1", "2", "3", "4", "5", "6", ".", "0">>
TxtShort   == <<"1", "2", "3">>
TxtTea     == <<"T", "e", "a">>
TxtSkuTea  == <<"7", "0", "1", "2", "3", "4", "5", "7", " ", "T", "e", "a">>
TxtOneHalf == <<"1", ",", "5">>
TxtSpaced  == <<"1", " ", "2", "3", "4", ",", "0", "0">>
TxtNbsp    == <<"1", Nbsp, "2", "3", "4", ",", "0", "0">>
TxtWord    == <<"x">>
TxtMinus   == <<"-", "1">>

Sheet(headers, rows) == [headers |-> headers, rows |-> rows]

\* Rows under the headers (identifier, name, quantity).
SheetRows3 ==
  { <<Cell(TxtSku), Cell(TxtTea), Cell(TxtOneHalf)>>,
    <<Cell(TxtSkuNum), Cell(TxtTea), Cell(TxtSpaced)>>,
    <<Cell(TxtShort), Cell(TxtTea), Cell(TxtNbsp)>>,
    <<NaNCell, Cell(TxtSkuTea), Cell(TxtWord)>>,
    <<NaNCell, Cell(TxtTea), NaNCell>>,
    <<Cell(TxtSku), NaNCell, Cell(TxtMinus)>> }

\* Rows under two headers: (name, quantity) or (identifier, quantity).
SheetRows2 ==
  { <<Cell(TxtSkuTea), Cell(TxtOneHalf)>>,
    <<Cell(TxtTea), Cell(TxtOneHalf)>> }

\* The rows of import_mappings get_db_mapping reads (header -> field).  No
\* handler writes the table (save_mapping_decision is not called by one); it
\* is an input of each import.
NoMapping   == <<>>
ArtIsSku    == [h \in {HdrArt} |-> FieldSku]
QtyIsPrice  == [h \in {HdrQty} |-> FieldPrice]

\* The imports of SpecSheet: a sheet and the mapping table it is read with.
SheetImports ==
  {[sheet |-> Sheet(<<HdrSkuId, HdrName, HdrQty>>, rows), db_map |-> NoMapping] :
     rows \in SeqsUpTo(SheetRows3, MaxSheetRows)}
  \cup
  {[sheet |-> Sheet(<<HdrName, HdrQtyLeft>>, rows), db_map |-> NoMapping] :
     rows \in SeqsUpTo(SheetRows2, MaxSheetRows)}
  \cup
  {[sheet |-> Sheet(<<HdrSku, HdrQty>>, rows), db_map |-> NoMapping] :
     rows \in SeqsUpTo(SheetRows2, MaxSheetRows)}
  \cup
  {[sheet |-> Sheet(<<HdrArt, HdrName, HdrQty>>, rows), db_map |-> m] :
     rows \in SeqsUpTo(SheetRows3, MaxSheetRows), m \in {NoMapping, ArtIsSku, QtyIsPrice}}

\* handlers/admin_panel.py process_import_file -> run_import from the sheet
\* on, run alone.  reqs holds what the import was given and what it answered:
\* the column names after renaming, the records it synchronised, the stats it
\* returned, or the error the handler reported.
RunImportSheet(sheet, db_map) ==
  LET cols == RenameColumns(sheet.headers, db_map)
      file == SheetRecords(sheet, db_map)
      r    == ImportSync(products, file)
  IN IF SheetRaises(sheet, db_map)
     THEN /\ reqs' = <<[sheet |-> sheet, db_map |-> db_map, cols |-> cols,
                        file |-> <<>>, stats |-> NoStats, res |-> "error"]>>
          /\ UNCHANGED <<botVars, card, items>>
     ELSE /\ products' = IF r.ok THEN r.table ELSE products
          /\ reqs' = <<[sheet |-> sheet, db_map |-> db_map, cols |-> cols,
                        file |-> file, stats |-> r.stats,
                        res |-> IF r.ok THEN "ok" ELSE "error"]>>
          /\ UNCHANGED <<lists, cart_items, next_item_id, card, items>>

NextSheet == \E imp \in SheetImports : RunImportSheet(imp.sheet, imp.db_map)

SpecSheet == Init /\ [][NextSheet]_vars

(***************************************************************************)
(* Properties.                                                             *)
(***************************************************************************)
Min2(a, b) == IF a <= b THEN a ELSE b

\* C1: a settlement of a list whose status is not active (saved, abandoned)
\* changes nothing: no product's stock, no cart item, no list.
C1_SettleOfNonActiveChangesNothing ==
  [][\A id \in 1..MaxLists :
       (/\ SaveCurrentList(id)
        /\ id \in DOMAIN lists
        /\ lists[id].status # "active")
       => UNCHANGED <<products, lists, cart_items>>]_vars

\* C2: the settlement of an active list leaves every one of its claims with
\* quantity = fulfilled = min(claimed quantity, stock at settlement) and
\* surplus = claimed - fulfilled, and the product's stock lower by fulfilled.
C2_SettleSplitsEveryClaim ==
  [][\A id \in 1..MaxLists :
       (/\ SaveCurrentList(id)
        /\ id \in DOMAIN lists
        /\ lists[id].status = "active")
       => \A c \in ItemsOfList(cart_items, id) :
            LET stock     == products[c.product_sku].qty_total
                fulfilled == Min2(c.quantity, stock)
                surplus   == c.quantity - fulfilled
                after     == ItemById(cart_items', c.id)
            IN /\ after.quantity = fulfilled
               /\ after.surplus_quantity = surplus
               /\ products'[c.product_sku].qty_total = stock - fulfilled
               /\ fulfilled + surplus = c.quantity]_vars

\* C3: when two settlements (of two lists) have both committed, every
\* product's stock is the stock before them less what the two fulfilled, and
\* the two did not fulfil more than that stock.
Settled(i) ==
  i \in DOMAIN reqs /\ reqs[i].op = "save" /\ reqs[i].pc = "done"
  /\ reqs[i].res = "files"

FulfilledBy(i, sku) ==
  IF sku \in DOMAIN reqs[i].snap.qty
  THEN reqs[i].snap.qty[sku] - ExportSplit(reqs[i].snap).qty[sku]
  ELSE 0

C3_ConcurrentSettlesAreSerial ==
  (Settled(1) /\ Settled(2) /\ reqs[1].list_id # reqs[2].list_id)
  => \A sku \in DOMAIN products :
       LET fulfilled == FulfilledBy(1, sku) + FulfilledBy(2, sku)
       IN /\ products[sku].qty_total = Cat0[sku].qty_total - fulfilled
          /\ fulfilled <= Cat0[sku].qty_total

\* C4: no user has more than one list with status active.
C4_OneActiveListPerUser ==
  \A u \in Users : Cardinality(ActiveListIds(lists, u)) <= 1

\* What an add request hands to add_item, and whether it gets that far.
CallsAddItem(sku, action) ==
  ~(action = "add_all" /\ (sku \notin DOMAIN products \/ products[sku].qty_total <= 0))

Delta(sku, action, qty) == IF action = "add_all" THEN products[sku].qty_total ELSE qty

LockOfUser(u) ==
  LET act == ActiveListIds(lists, u)
  IN IF act = {} THEN NoVal ELSE lists[CHOOSE l \in act : TRUE].department_lock

ClaimedByUser(u, sku) ==
  LET rows == {c \in cart_items : c.list_id \in ActiveListIds(lists, u)
                                  /\ c.product_sku = sku}
  IN SumOver([c \in rows |-> c.quantity], rows)

\* C5: an add to a list without a lock (or for a user without a list) is
\* accepted whatever the product's department, and locks the list to it; an
\* add of a product of another department to a locked list is answered with
\* the department error and changes no cart item, no list and no product.
C5_DepartmentLockRejectsWithoutMutation ==
  [][\A u \in Users, sku \in SKUs, a \in Actions, q \in 1..MaxDelta :
       (/\ ProcessAddToCart(u, sku, a, q)
        /\ CallsAddItem(sku, a)
        /\ sku \in DOMAIN products
        /\ Cardinality(ActiveListIds(lists, u)) <= 1)
       => LET dept == DeptOrDefault(products[sku].department) IN
          /\ (LockOfUser(u) # NoVal /\ LockOfUser(u) # dept)
             => /\ UNCHANGED <<products, lists, cart_items>>
                /\ AddItem(products, lists, cart_items, next_item_id,
                           u, sku, Delta(sku, a, q)).res = "dept_mismatch"
          /\ LockOfUser(u) = NoVal
             => \E l \in ActiveListIds(lists', u) :
                  /\ lists'[l].department_lock = dept
                  /\ \E c \in ItemsOfList(cart_items', l) :
                       c.product_sku = sku /\ c.quantity = Delta(sku, a, q)]_vars

\* A user's list is locked and holds a claim, and an add of a product of
\* another department is answered with the department error.
C5_Witness ==
  \E u \in Users, sku \in DOMAIN products :
    /\ Cardinality(ActiveListIds(lists, u)) = 1
    /\ LockOfUser(u) # NoVal
    /\ \E c \in cart_items : c.list_id \in ActiveListIds(lists, u)
    /\ LockOfUser(u) # DeptOrDefault(products[sku].department)
    /\ AddItem(products, lists, cart_items, next_item_id, u, sku, 1).res
         = "dept_mismatch"

\* C6: every cart item's product has the department its list is locked to.
C6_ClaimsOfAListShareItsLock ==
  \A c \in cart_items :
    DeptOrDefault(products[c.product_sku].department)
      = lists[c.list_id].department_lock

C8_AvailableIsStockLessActiveClaims ==
  [][\A sku \in SKUs :
       (CmdItem(sku, TRUE) /\ sku \in DOMAIN items)
       => card'.available = items[sku].base_qty - 0]_vars

\* C9: an import leaves every item that was active and is not in the file
\* inactive with stock 0.
C9_MissingItemsInactiveWithZeroStock ==
  [][\A raw_items \in AppFiles :
       (UpsertFromImport(raw_items) /\ ~AppImportRaises(raw_items))
       => \A k \in DOMAIN items :
            (items[k].is_active = 1 /\ k \notin AppSeenSkus(raw_items))
            => (items'[k].is_active = 0 /\ items'[k].base_qty = 0)]_vars

\* The value a group / department cell holds: nothing when it is blank.
FileValue(cell) ==
  IF cell = NaN THEN NoVal
  ELSE IF cell \in DOMAIN DotZero THEN DotZero[cell]
  ELSE cell

\* C10: after an import every item of the file (named by one row) is in the
\* catalog, active, with the name, department, group, quantity, price and
\* months of its row.
C10_ImportStoresTheRow ==
  [][\A file \in BotFiles :
       (RunImport(file) /\ ImportSync(products, file).ok)
       => \A i \in DOMAIN file :
            (\A j \in DOMAIN file : file[j].final_sku = file[i].final_sku => j = i)
            => /\ file[i].final_sku \in DOMAIN products'
               /\ LET row == file[i]
                      p   == products'[row.final_sku]
                  IN /\ p.is_active
                     /\ p.name = row.name
                     /\ p.department = FileValue(row.department)
                     /\ p.group = FileValue(row.group)
                     /\ p.qty_total = row.qty_total
                     /\ p.price = row.price
                     /\ p.months_inactive = row.months_inactive]_vars

\* C11: when the lists that claim an item are settled one after the other
\* (each once, while active), what they fulfil together is at most the stock
\* before the first settlement and equals min(that stock, sum of the claims),
\* and each list's surplus is its claim less the stock that was left when it
\* was settled (0 when the stock covered the claim).
ClaimAt(i, sku) ==
  LET rows == {c \in reqs[i].snap.rows : c.product_sku = sku}
  IN SumOver([c \in rows |-> c.quantity], rows)

RowsNow(i, sku) ==
  {c \in cart_items : c.list_id = reqs[i].list_id /\ c.product_sku = sku}

C11_SequentialSettlesShareTheStock ==
  (/\ reqs # <<>>
   /\ \A i \in DOMAIN reqs : reqs[i].res = "files" /\ reqs[i].snap.status = "active"
   /\ \A i, j \in DOMAIN reqs : reqs[i].list_id = reqs[j].list_id => i = j)
  => \A sku \in DOMAIN reqs[1].snap.qty :
       LET stock0    == reqs[1].snap.qty[sku]
           log       == {i \in DOMAIN reqs : sku \in DOMAIN reqs[i].snap.qty}
           fulfilled == [i \in log |->
                           SumOver([c \in RowsNow(i, sku) |-> c.quantity],
                                   RowsNow(i, sku))]
           surplus   == [i \in log |->
                           SumOver([c \in RowsNow(i, sku) |-> c.surplus_quantity],
                                   RowsNow(i, sku))]
           claims    == [i \in log |-> ClaimAt(i, sku)]
       IN /\ SumOver(fulfilled, log) <= stock0
          /\ SumOver(fulfilled, log) = Min2(stock0, SumOver(claims, log))
          /\ \A i \in log :
               surplus[i] = Max2(0, claims[i] - reqs[i].snap.qty[sku])

\* C12: when a settlement and an import have run at the same time and both
\* have committed, every product's stock is what one of the two serial
\* orders leaves: the import after the settlement, or the settlement after
\* the import.
Imported(j) ==
  j \in DOMAIN reqs /\ reqs[j].op = "import" /\ reqs[j].pc = "done"
  /\ reqs[j].res = "ok"

SnapOn(snap, ps) == [snap EXCEPT !.qty = [k \in DOMAIN snap.qty |-> ps[k].qty_total]]

SettleThenImport(i, j) ==
  LET snap == SnapOn(reqs[i].snap, Cat0)
  IN ImportSync(ExportCommitProducts(Cat0, snap, ExportSplit(snap)),
                reqs[j].file).table

ImportThenSettle(i, j) ==
  LET ps   == ImportSync(Cat0, reqs[j].file).table
      snap == SnapOn(reqs[i].snap, ps)
  IN ExportCommitProducts(ps, snap, ExportSplit(snap))

C12_SettleAndImportAreSerial ==
  \A i, j \in 1..MaxReqs :
    (Settled(i) /\ Imported(j))
    => \E serial \in {SettleThenImport(i, j), ImportThenSettle(i, j)} :
         \A sku \in DOMAIN products :
           products[sku].qty_total = serial[sku].qty_total

\* C13: a settlement that fails before its commit, at any pass of its loop
\* or after it, leaves no trace: neither its SELECT nor its failure changes
\* any product's stock, any cart item's quantity or surplus, or any list's
\* status.
C13_FailedSettleChangesNothing ==
  [][/\ \A id \in 1..MaxLists : ConcSave(id) => UNCHANGED botVars
     /\ \A i \in 1..MaxReqs, n \in 1..MaxItems :
          ConcSaveFail(i, n) => UNCHANGED <<products, lists, cart_items>>]_vars

\* A settlement has failed after its loop took stock for a claim.
C13_Witness ==
  \E i \in DOMAIN reqs :
    /\ reqs[i].op = "save" /\ reqs[i].res = "failed"
    /\ reqs[i].snap.status = "active"
    /\ \E sku \in DOMAIN reqs[i].snap.qty : FulfilledBy(i, sku) > 0

\* C14: an import that fails (before it touches the database, after any
\* number of rows, in its commit, or on the primary key of a sku the file
\* names twice) leaves the catalog as it was: the bot's products table and
\* the application's items table alike.
C14_FailedImportChangesNothing ==
  [][/\ \A file \in ReconFiles, n \in 0..MaxRows :
          RunImportFails(file, n) => products' = products
     /\ \A file \in ReconFiles :
          (RunImport(file) /\ ~ImportSync(products, file).ok)
          => products' = products
     /\ \A raw_items \in AppReconFiles, n \in 0..MaxRows :
          UpsertFromImportFails(raw_items, n) => items' = items
     /\ \A raw_items \in AppReconFiles :
          (UpsertFromImport(raw_items) /\ AppImportRaises(raw_items))
          => items' = items]_vars

\* An import has failed after it handled a row, over a catalog that holds
\* products and items which a rerun of that import would change.
C14_Witness ==
  /\ reqs # <<>> /\ reqs[1].res = "failed" /\ reqs[1].qty > 0
  /\ products # <<>> /\ items # <<>>
  /\ \E file \in ReconFiles :
       /\ Len(file) >= reqs[1].qty
       /\ ImportPending(products, file, reqs[1].qty) # products
  /\ \E raw_items \in AppReconFiles :
       /\ ~AppImportRaises(raw_items)
       /\ Len(raw_items) >= reqs[1].qty
       /\ AppPending(items, raw_items, reqs[1].qty) # items

\* C15: a list's status changes only from active, to abandoned or to saved;
\* the status of an abandoned or saved list never changes.
C15_StatusOnlyLeavesActive ==
  [][\A id \in DOMAIN lists :
       lists'[id].status # lists[id].status
       => /\ lists[id].status = "active"
          /\ lists'[id].status \in {"abandoned", "saved"}]_vars

RowsOf(ci, lid, sku) == {c \in ci : c.list_id = lid /\ c.product_sku = sku}

C18_OneRowPerProductSummingTheAdds ==
  /\ [](\A c, d \in cart_items :
          (c.list_id = d.list_id /\ c.product_sku = d.product_sku) => c = d)
  /\ [][/\ \A u \in Users, sku \in SKUs, a \in Actions, q \in 1..MaxDelta :
            (/\ ProcessAddToCart(u, sku, a, q)
             /\ CallsAddItem(sku, a)
             /\ AddItem(products, lists, cart_items, next_item_id,
                        u, sku, Delta(sku, a, q)).res = "ok")
            => \E l \in ActiveListIds(lists', u) :
                 /\ \E c \in cart_items' :
                      /\ RowsOf(cart_items', l, sku) = {c}
                      /\ c.quantity = ClaimedByUser(u, sku) + Delta(sku, a, q)
                 /\ \A k \in SKUs \ {sku} :
                      RowsOf(cart_items', l, k) = RowsOf(cart_items, l, k)
       /\ \A c \in cart_items, d \in cart_items' :
            (/\ c.id = d.id /\ c.quantity # d.quantity
             /\ lists'[c.list_id].status = "active")
            => \E a \in Actions, q \in 1..MaxDelta :
                 /\ ProcessAddToCart(lists[c.list_id].user_id, c.product_sku, a, q)
                 /\ d.quantity = c.quantity + Delta(c.product_sku, a, q)]_vars

\* An active list holds two products, one of them with more than one unit.
C18_Witness ==
  \E c, d \in cart_items :
    /\ c.list_id = d.list_id /\ c.product_sku # d.product_sku
    /\ lists[c.list_id].status = "active"
    /\ c.quantity > 1

\* C19: under every interleaving of requests no list holds two cart items
\* for one product.
C19_OneRowPerListAndProduct ==
  \A c, d \in cart_items :
    (c.list_id = d.list_id /\ c.product_sku = d.product_sku) => c.id = d.id

\* C20: a new list, an add (accepted or refused) and a clear leave every
\* product as it was: name, department, group, stock, price, months and
\* active flag, and the set of products.
C20_ListOperationsLeaveTheCatalog ==
  [][(\/ \E u \in Users : CreateNewList(u)
      \/ \E u \in Users, sku \in SKUs, a \in Actions, q \in 1..MaxDelta :
           ProcessAddToCart(u, sku, a, q)
      \/ \E u \in Users : ClearList(u))
     => products' = products]_vars

\* Over a catalog with stock, a list was abandoned for a new one and an
\* active list holds a claim.
C20_Witness ==
  /\ \E sku \in DOMAIN products : products[sku].qty_total > 0
  /\ \E id \in DOMAIN lists : lists[id].status = "abandoned"
  /\ \E c \in cart_items : lists[c.list_id].status = "active"

\* C21: no product's stock is negative.
C21_StockNeverNegative ==
  \A sku \in DOMAIN products : products[sku].qty_total >= 0

\* C22: when an import has committed, the import of the same file once more
\* leaves the catalog as the first left it and reports created = 0: for the
\* bot's products table and for the application's items table.
C22_SecondImportChangesNothing ==
  [][/\ \A file \in ReconFiles :
          (RunImport(file) /\ ImportSync(products, file).ok)
          => LET again == ImportSync(products', file)
             IN /\ again.ok
                /\ again.table = products'
                /\ again.stats.created = 0
     /\ \A raw_items \in AppReconFiles :
          (UpsertFromImport(raw_items) /\ ~AppImportRaises(raw_items))
          => /\ AppImportTable(items', raw_items) = items'
             /\ AppImportStats(items', raw_items).added = 0]_vars

\* Both catalogs are as an import of a file with rows left them: the import
\* of that file changes nothing more, and it has deactivated a product.
C22_Witness ==
  /\ \E file \in ReconFiles :
       /\ file # <<>>
       /\ ImportSync(products, file).ok
       /\ ImportSync(products, file).table = products
       /\ \E k \in DOMAIN products : ~products[k].is_active
  /\ \E raw_items \in AppReconFiles :
       /\ raw_items # <<>>
       /\ ~AppImportRaises(raw_items)
       /\ AppImportTable(items, raw_items) = items
       /\ \E k \in DOMAIN items : items[k].is_active = 0

\* C23: in every state the import of a file that names a product in several
\* rows succeeds, and leaves that product, new or not, with the name,
\* quantity, price and months of the last of those rows.
LastRowOf(file, i) ==
  \A j \in DOMAIN file : file[j].final_sku = file[i].final_sku => j <= i

C23_LastRowOfASkuWins ==
  \A file \in BotFiles :
    LET r == ImportSync(products, file)
    IN /\ r.ok
       /\ \A i \in DOMAIN file :
            LastRowOf(file, i)
            => LET p == r.table[file[i].final_sku]
               IN /\ p.name = file[i].name
                  /\ p.qty_total = file[i].qty_total
                  /\ p.price = file[i].price
                  /\ p.months_inactive = file[i].months_inactive

\* C26: add_item for a sku the catalog does not hold answers 'not found' and
\* leaves lists and cart items as they are (no list is created, no lock is
\* set, no cart item is written), and the add handler changes nothing.
C26_AddOfUnknownSkuChangesNothing ==
  /\ [](\A u \in Users, sku \in SKUs \ DOMAIN products, q \in 1..MaxDelta :
          LET r == AddItem(products, lists, cart_items, next_item_id, u, sku, q)
          IN /\ r.res = "not_found"
             /\ r.lists = lists
             /\ r.cart_items = cart_items
             /\ r.next_item_id = next_item_id)
  /\ [][\A u \in Users, sku \in SKUs, a \in Actions, q \in 1..MaxDelta :
          (ProcessAddToCart(u, sku, a, q) /\ sku \notin DOMAIN products)
          => UNCHANGED botVars]_vars

\* The catalog lacks a sku while one user has no list at all and another
\* has an active list without a lock: the cases in which an add would create
\* a list or set the lock.
C26_Witness ==
  /\ products # <<>>
  /\ SKUs \ DOMAIN products # {}
  /\ \E u \in Users : ListIdsOfUser(lists, u) = {}
  /\ \E u \in Users : \E l \in ActiveListIds(lists, u) :
       lists[l].department_lock = NoVal

\* C30: settling an active list, whatever cart items it holds and also when
\* it holds none, is carried out and leaves the list with status 'saved'.
C30_SettleLeavesTheListSaved ==
  \A list_id \in DOMAIN lists :
    lists[list_id].status = "active"
    => LET snap == ExportLoad(products, lists, cart_items, list_id)
       IN /\ ~ExportRejects(snap)
          /\ ExportCommitLists(lists, list_id, snap)[list_id].status = "saved"

\* The rows of the last import's sheet that have a name but yield no sku.
RowsWithoutSku ==
  LET j == reqs[1]
      named == NamedRows(j.cols, j.sheet.rows)
  IN {i \in DOMAIN named : ExtractSku(j.cols, named[i]) = NoSku}

\* C24: a sheet row that yields no identifier is left out of the import,
\* the import goes on with the other rows, and the errors count the import
\* returns is the number of rows left out for that reason.
C24_ErrorsCountsRowsWithoutSku ==
  (reqs # <<>> /\ ~SheetRaises(reqs[1].sheet, reqs[1].db_map))
  => LET j == reqs[1]
     IN /\ j.res = "ok"
        /\ Len(j.file) = Len(NamedRows(j.cols, j.sheet.rows))
                           - Cardinality(RowsWithoutSku)
        /\ j.stats.errors = Cardinality(RowsWithoutSku)

\* Whether a header of the import`s sheet was resolved to the field.
Resolved(j, field) ==
  \E k \in DOMAIN j.sheet.headers :
    DetectColumn(j.sheet.headers[k], j.db_map) = field

\* C25: an import ends with the fatal error exactly when its headers give
\* neither an identifier column nor a name column to take the identifier
\* from (whatever other headers stay unresolved); the fatal error comes before
\* any row is handled and leaves the catalog as it was.
C25_FatalExactlyWithoutIdentifierColumn ==
  /\ [](reqs # <<>>
          => /\ reqs[1].res = "error"
                  <=> (~Resolved(reqs[1], FieldSku) /\ ~Resolved(reqs[1], FieldName))
             /\ reqs[1].res = "error" => reqs[1].file = <<>>)
  /\ [][\A imp \in SheetImports :
          (RunImportSheet(imp.sheet, imp.db_map) /\ reqs'[1].res = "error")
          => products' = products]_vars

\* A text of eight digits.
IsSku(text) == Len(text) = SkuLen /\ \A i \in DOMAIN text : text[i] \in Digits

\* C27: every record an import synchronises, and so every key of the
\* catalog, is a run of eight digits: the text of the sku cell when the sheet
\* has a sku column and the cell is not blank, otherwise the eight-digit run
\* found in the name.
C27_OnlyEightDigitSkus ==
  /\ \A sku \in DOMAIN products : IsSku(sku)
  /\ reqs # <<>> => \A i \in DOMAIN reqs[1].file : IsSku(reqs[1].file[i].final_sku)

\* The number a cell stands for: comma as the decimal point, ordinary and
\* non-breaking spaces left out, 0 for a blank or unreadable cell.
NumberRead(cell) ==
  LET s == SelectSeq(Replace(cell.text, <<",">>, <<".">>),
                     LAMBDA c : c \notin {" ", Nbsp})
  IN IF cell.isna \/ ~ParseFloat(s).ok THEN 0 ELSE ParseFloat(s).val

\* C28: whatever the quantity cells of a sheet hold, the import does not
\* fail on them, and every record carries the number its cell stands for:
\* "1,5" is 1.5, "1 234,00" is 1234.0 with an ordinary or a non-breaking
\* space, and a blank or unreadable cell is 0.0.
C28_NumericCellsAreReadLeniently ==
  (reqs # <<>> /\ ~SheetRaises(reqs[1].sheet, reqs[1].db_map)
     /\ HasCol(reqs[1].cols, FieldQty))
  => LET j == reqs[1]
         kept == KeptRows(j.cols, j.sheet.rows)
     IN /\ j.res = "ok"
        /\ \A i \in DOMAIN kept :
             j.file[i].qty_total = NumberRead(RowCell(j.cols, kept[i], FieldQty))

\* Whether the text holds sub as a substring (or is sub).
Contains(text, sub) ==
  \E i \in 1..(Len(text) - Len(sub) + 1) :
    SubSeq(text, i, i + Len(sub) - 1) = sub

\* The first field, in the order of the synonym table, one of whose synonyms
\* is the header or is contained in it; no field when there is none.
FirstFieldMatching(norm_header) ==
  LET hit == {k \in DOMAIN DEFAULT_MAPPING :
                \E syn \in DEFAULT_MAPPING[k].synonyms : Contains(norm_header, syn)}
  IN IF hit = {} THEN NoField ELSE DEFAULT_MAPPING[MinOfSet(hit)].field

\* C29: every header of an imported sheet is resolved from its normalised
\* form alone, to one field at most: the field the mapping table gives for
\* the normalised header when it has an entry for it, otherwise the first
\* field of the synonym table with a synonym that equals the normalised
\* header or is part of it; the column is renamed to that field.
C29_HeaderResolution ==
  reqs # <<>>
  => LET j == reqs[1]
     IN \A k \in DOMAIN j.sheet.headers :
          LET norm == NormalizeHeader(j.sheet.headers[k])
              field == DetectColumn(j.sheet.headers[k], j.db_map)
          IN /\ field = DetectColumn(norm, j.db_map)
             /\ field = IF norm \in DOMAIN j.db_map THEN j.db_map[norm]
                        ELSE FirstFieldMatching(norm)
             /\ field # NoField => j.cols[k] = field

\* C31: an import that brings no row (an empty file, or one all of whose
\* rows were rejected) leaves every product and every item that was active
\* inactive and with a stock of 0.
C31_EmptyImportDeactivatesEverything ==
  /\ LET r == ImportSync(products, <<>>)
     IN /\ r.ok
        /\ \A sku \in DOMAIN products :
             products[sku].is_active
             => ~r.table[sku].is_active /\ r.table[sku].qty_total = 0
  /\ LET tbl == AppImportTable(items, <<>>)
     IN \A sku \in DOMAIN items :
          items[sku].is_active = 1
          => tbl[sku].is_active = 0 /\ tbl[sku].base_qty = 0

SavedQty(ls, ci, sku) ==
  LET rows == {c \in ci : c.product_sku = sku /\ ls[c.list_id].status = "saved"}
  IN SumOver([c \in rows |-> c.quantity], rows)

StockAndSaved(ps, ls, ci, sku) == ps[sku].qty_total + SavedQty(ls, ci, sku)

\* C33: apart from imports, every step keeps, for each product, the stock
\* plus the quantities of its cart items in saved lists: a settlement moves
\* what it takes from the stock onto the saved cart items, and creating a
\* list, adding an item and clearing a list change neither.
C33_StockPlusSavedIsKept ==
  [][((\E list_id \in 1..MaxLists : SaveCurrentList(list_id))
       \/ (\E u \in Users : CreateNewList(u) \/ ClearList(u))
       \/ (\E u \in Users, sku \in SKUs, a \in Actions, q \in 1..MaxDelta :
             ProcessAddToCart(u, sku, a, q)))
     => /\ DOMAIN products' = DOMAIN products
        /\ \A sku \in DOMAIN products :
             StockAndSaved(products', lists', cart_items', sku)
               = StockAndSaved(products, lists, cart_items, sku)]_vars

\* The surplus recorded on the list's cart items of the product.
SurplusOf(ci, list_id, sku) ==
  LET rows == {c \in ci : c.list_id = list_id /\ c.product_sku = sku}
  IN SumOver([c \in rows |-> c.surplus_quantity], rows)

\* C34: the settlement of an active list lowers no product's available
\* quantity (stock less the quantities on active lists): for a product on
\* the list it is afterwards what it was plus the surplus recorded for the
\* list's cart item, for every other product it is what it was.
C34_SettleNeverLowersAvailable ==
  [][\A list_id \in 1..MaxLists :
       (/\ SaveCurrentList(list_id)
        /\ list_id \in DOMAIN lists
        /\ lists[list_id].status = "active"
        /\ ItemsOfList(cart_items, list_id) # {})
       => \A sku \in DOMAIN products :
            LET before == AvailableQty(products[sku].qty_total, lists, cart_items, sku)
                after  == AvailableQty(products'[sku].qty_total, lists', cart_items', sku)
            IN /\ after >= before
               /\ after = before + SurplusOf(cart_items', list_id, sku)]_vars

\* C35: however add and clear requests on a user's list interleave, a list
\* that holds a cart item carries a department lock.
C35_ListWithItemsIsLocked ==
  \A c \in cart_items : lists[c.list_id].department_lock # NoVal

\* C36: every product and every item that is not active has a stock of 0.
C36_InactiveMeansNoStock ==
  /\ \A sku \in DOMAIN products :
       ~products[sku].is_active => products[sku].qty_total = 0
  /\ \A sku \in DOMAIN items :
       items[sku].is_active = 0 => items[sku].base_qty = 0

\* C37: an import changes no list and no cart item: status and department
\* lock of every list and the quantities of every cart item are after the
\* import what they were before, also when the import lowers or zeroes the
\* stock of a product on an active list or deactivates it.
C37_ImportLeavesListsAlone ==
  [][\A file \in CoreFiles :
       RunImport(file) => lists' = lists /\ cart_items' = cart_items]_vars

\* An active list holds a cart item of a product an import has deactivated.
C37_Witness ==
  \E c \in cart_items :
    /\ lists[c.list_id].status = "active"
    /\ c.quantity > 0
    /\ ~products[c.product_sku].is_active
    /\ products[c.product_sku].qty_total = 0

\* The cart item an add request found in its list.
HitOf(r) == CHOOSE c \in r.hit : TRUE

\* C38: when two add requests of one user for a product the list already
\* holds have both been answered with success, the cart item carries the
\* quantity it had before them plus the quantities of both.
C38_BothAddsCount ==
  \A i, j \in DOMAIN reqs :
    (/\ i < j
     /\ reqs[i].op = "add" /\ reqs[j].op = "add"
     /\ reqs[i].res = "ok" /\ reqs[j].res = "ok"
     /\ reqs[i].u = reqs[j].u /\ reqs[i].sku = reqs[j].sku
     /\ reqs[i].hit # {} /\ reqs[j].hit # {})
    => \E c \in cart_items :
         /\ c.id = HitOf(reqs[i]).id
         /\ c.quantity = Min2(HitOf(reqs[i]).quantity, HitOf(reqs[j]).quantity)
                           + reqs[i].qty + reqs[j].qty

====
